---- MODULE Spec2Model ----
(***************************************************************************)
(* Model of backend/sort_fuel_receipts_ocr.py, the fuel receipt sorter, and *)
(* of backend/lambda_handler.py, the API Gateway handler that calls it.    *)
(* Texts are sequences of one-character strings, so that the regular       *)
(* expressions, split, strip and zfill of the source are modelled by what  *)
(* they do to the characters.                                              *)
(***************************************************************************)
EXTENDS Integers, Sequences, FiniteSets, TLC

VARIABLES
    pc,             \* position in sort_pdf_by_vehicle, or in a pure-function call
    doc,            \* reader.pages: per page its native text (or a throw) and its OCR text
    use_ocr,        \* argument use_ocr
    OCR_AVAILABLE,  \* module flag OCR_AVAILABLE
    needs_ocr,      \* local needs_ocr
    page_num,       \* number of pages the per-page loop has finished
    vin_pages,      \* defaultdict(list): key -> sequence of <<page_num, vehicle_name>>
    writer,         \* PdfWriter pages, each with the group it was added under
    outFile,        \* what is at output_pdf_path
    fed,            \* per call of extract_vehicle_vin: the page, its text source, the
                    \* text handed over and the vin_last_4 returned
    garbleChecked,  \* pages whose text was handed to is_text_garbled
    postThrown,     \* pages whose progress report threw after bucketing
    failure,        \* why sort_pdf_by_vehicle called sys.exit(1), "none" if it did not
    arg,            \* argument of a pure-function call
    ret,            \* its return value
    hpc,            \* position in handler and in the request handler it routes to
    event,          \* the API Gateway event, by what the handlers read from it
    response,       \* statusCode of the response returned, 0 while there is none
    inFile,         \* what is at input_path
    header,         \* what validate_pdf_magic_number read from input_path
    s3,             \* the objects the request put into or removed from TEMP_BUCKET
    cleaned         \* the temp files the finally block removed, and those it could not

handlerVars == <<hpc, event, response, inFile, header, s3, cleaned>>

vars == <<pc, doc, use_ocr, OCR_AVAILABLE, needs_ocr, page_num, vin_pages,
          writer, outFile, fed, garbleChecked, postThrown, failure, arg, ret,
          handlerVars>>

sortVars == <<doc, use_ocr, OCR_AVAILABLE, needs_ocr, page_num, vin_pages,
              writer, outFile, fed, garbleChecked, postThrown, failure>>

\* Python's None, comparable with texts and with tuples of texts
None == <<"None">>

(***************************************************************************)
(* Characters                                                              *)
(***************************************************************************)
Digits == {"0", "1", "2", "3", "4", "5", "6", "7", "8", "9"}

UpperCase == {"A", "B", "C", "D", "E", "F", "G", "H", "I", "J", "K", "L", "M",
              "N", "O", "P", "Q", "R", "S", "T", "U", "V", "W", "X", "Y", "Z"}

LowerCase == {"a", "b", "c", "d", "e", "f", "g", "h", "i", "j", "k", "l", "m",
              "n", "o", "p", "q", "r", "s", "t", "u", "v", "w", "x", "y", "z"}

\* The characters of the modelled texts, in code-point order.
CharOrder == <<"\n", " ", "#", "/", "0", "1", "2", "3", "4", "5", "6", "7", "8", "9",
               "A", "B", "C", "D", "E", "F", "G", "H", "I", "J", "K", "L", "M",
               "N", "O", "P", "Q", "R", "S", "T", "U", "V", "W", "X", "Y", "Z",
               "a", "b", "c", "d", "e", "f", "g", "h", "i", "j", "k", "l", "m",
               "n", "o", "p", "q", "r", "s", "t", "u", "v", "w", "x", "y", "z">>

Ord(c) == CHOOSE i \in 1..Len(CharOrder) : CharOrder[i] = c

IsDigit(c) == c \in Digits

IsSpace(c) == c \in {" ", "\n"}

IsAlpha(c) == c \in UpperCase \cup LowerCase

\* str.lower() of one character, as re.IGNORECASE compares.
ToLower(c) == IF c \in UpperCase THEN CharOrder[Ord(c) + 26] ELSE c

\* Python's str < str: by code point, a proper prefix first.
RECURSIVE StrLess(_, _)
StrLess(a, b) ==
    IF b = <<>> THEN FALSE
    ELSE IF a = <<>> THEN TRUE
    ELSE IF a[1] # b[1] THEN Ord(a[1]) < Ord(b[1])
    ELSE StrLess(Tail(a), Tail(b))

Unknown == <<"U", "n", "k", "n", "o", "w", "n">>

(***************************************************************************)
(* extract_last_4_digits                                                   *)
(***************************************************************************)
\* Index of the last character of the maximal digit run that starts at i.
RunEnd(s, i) ==
    CHOOSE j \in i..Len(s) :
        /\ \A k \in i..j : IsDigit(s[k])
        /\ j = Len(s) \/ ~IsDigit(s[j + 1])

RunStarts(s) ==
    {i \in 1..Len(s) : IsDigit(s[i]) /\ (i = 1 \/ ~IsDigit(s[i - 1]))}

\* re.findall(r'\d+', s): the maximal digit runs, left to right.
FindAllDigits(s) ==
    LET st == RunStarts(s)
        nth(n) == CHOOSE i \in st : Cardinality({j \in st : j < i}) = n - 1
    IN  [n \in 1..Cardinality(st) |-> SubSeq(s, nth(n), RunEnd(s, nth(n)))]

\* str.zfill(w) of a string of digits.
RECURSIVE zfill(_, _)
zfill(s, w) == IF Len(s) >= w THEN s ELSE zfill(<<"0">> \o s, w)

extract_last_4_digits_first_run(vehicle_name) ==
    LET digits == FindAllDigits(vehicle_name)
    IN  IF Len(digits) > 0
        THEN LET last_digits == digits[1]
             IN  IF Len(last_digits) = 4 THEN last_digits
                 ELSE IF Len(last_digits) > 4
                      THEN SubSeq(last_digits, Len(last_digits) - 3, Len(last_digits))
                      ELSE zfill(last_digits, 4)
        ELSE Unknown

extract_last_4_digits_no_pad(vehicle_name) ==
    LET digits == FindAllDigits(vehicle_name)
    IN  IF Len(digits) > 0
        THEN LET last_digits == digits[Len(digits)]
             IN  IF Len(last_digits) > 4
                 THEN SubSeq(last_digits, Len(last_digits) - 3, Len(last_digits))
                 ELSE last_digits
        ELSE Unknown

extract_last_4_digits(vehicle_name) ==
    LET digits == FindAllDigits(vehicle_name)
    IN  IF Len(digits) > 0
        THEN LET last_digits == digits[Len(digits)]
             IN  IF Len(last_digits) = 4 THEN last_digits
                 ELSE IF Len(last_digits) > 4
                      THEN SubSeq(last_digits, Len(last_digits) - 3, Len(last_digits))
                      ELSE zfill(last_digits, 4)
        ELSE Unknown

(***************************************************************************)
(* String helpers: str.split('\n'), str.strip(), `in`, and the pieces the  *)
(* regular expressions are made of                                         *)
(***************************************************************************)
\* page_text.split('\n')
Split(text) ==
    LET nl == {i \in 1..Len(text) : text[i] = "\n"}
        \* the n-th newline; 0 before the first, Len + 1 after the last
        pos(n) == IF n = 0 THEN 0
                  ELSE IF n > Cardinality(nl) THEN Len(text) + 1
                  ELSE CHOOSE i \in nl : Cardinality({j \in nl : j < i}) = n - 1
    IN  [n \in 1..(Cardinality(nl) + 1) |-> SubSeq(text, pos(n - 1) + 1, pos(n) - 1)]

\* str.strip()
Strip(s) ==
    LET keep == {i \in 1..Len(s) : ~IsSpace(s[i])}
    IN  IF keep = {} THEN <<>>
        ELSE SubSeq(s, CHOOSE i \in keep : \A j \in keep : i <= j,
                       CHOOSE i \in keep : \A j \in keep : i >= j)

\* the literal lit stands in s at index i
MatchAt(s, i, lit) ==
    /\ i >= 1
    /\ i + Len(lit) - 1 <= Len(s)
    /\ \A k \in 1..Len(lit) : s[i + k - 1] = lit[k]

\* the same under re.IGNORECASE (lit is written in lower case)
MatchAtCI(s, i, lit) ==
    /\ i >= 1
    /\ i + Len(lit) - 1 <= Len(s)
    /\ \A k \in 1..Len(lit) : ToLower(s[i + k - 1]) = lit[k]

\* sub in s
Contains(s, sub) == \E i \in 1..(Len(s) + 1) : MatchAt(s, i, sub)

\* \s* from index i: the index after the whitespace run
SkipSpaces(s, i) ==
    CHOOSE j \in i..(Len(s) + 1) :
        /\ \A k \in i..(j - 1) : IsSpace(s[k])
        /\ j = Len(s) + 1 \/ ~IsSpace(s[j])

\* \d* from index i
SkipDigits(s, i) ==
    CHOOSE j \in i..(Len(s) + 1) :
        /\ \A k \in i..(j - 1) : IsDigit(s[k])
        /\ j = Len(s) + 1 \/ ~IsDigit(s[j])

\* [a-z]* from index i
SkipLower(s, i) ==
    CHOOSE j \in i..(Len(s) + 1) :
        /\ \A k \in i..(j - 1) : s[k] \in LowerCase
        /\ j = Len(s) + 1 \/ s[j] \notin LowerCase

\* [a-z]* under re.IGNORECASE from index i
SkipAlpha(s, i) ==
    CHOOSE j \in i..(Len(s) + 1) :
        /\ \A k \in i..(j - 1) : IsAlpha(s[k])
        /\ j = Len(s) + 1 \/ ~IsAlpha(s[j])

\* \d{4} at index i
FourDigitsAt(s, i) ==
    /\ i >= 1
    /\ i + 3 <= Len(s)
    /\ \A k \in i..(i + 3) : IsDigit(s[k])

S_Vehicle == <<"V", "e", "h", "i", "c", "l", "e">>

S_FuelType == <<"F", "u", "e", "l", " ", "T", "y", "p", "e">>

S_diesel == <<"d", "i", "e", "s", "e", "l">>

S_gas == <<"g", "a", "s">>

S_gasoline == <<"g", "a", "s", "o", "l", "i", "n", "e">>

\* \s+(\d{4})\s+(?:diesel|gas|gasoline) under re.IGNORECASE, from index e:
\* the index of the four digits, 0 when it does not match there.
FuelTail(s, e) ==
    IF ~(e >= 1 /\ e <= Len(s) /\ IsSpace(s[e])) THEN 0
    ELSE LET d == SkipSpaces(s, e)
         IN  IF ~(FourDigitsAt(s, d) /\ d + 4 <= Len(s) /\ IsSpace(s[d + 4])) THEN 0
             ELSE LET f == SkipSpaces(s, d + 4)
                  IN  IF \/ MatchAtCI(s, f, S_diesel)
                         \/ MatchAtCI(s, f, S_gas)
                         \/ MatchAtCI(s, f, S_gasoline)
                      THEN d ELSE 0

Min(S) == CHOOSE x \in S : \A y \in S : x <= y

\* "<group 1 stripped> <group 2>" and group 2 of a name/4-digit/fuel match
\* whose group 1 is s[b..e-1]
FuelResult(s, b, e) ==
    LET d == FuelTail(s, e)
        vin_last_4 == SubSeq(s, d, d + 3)
    IN  <<vin_last_4, Strip(SubSeq(s, b, e - 1)) \o <<" ">> \o vin_last_4>>

\* re.search(r'(.+?)\s+(\d{4})\s+(?:diesel|gas|gasoline)', prev_line, re.IGNORECASE):
\* leftmost start, then the shortest group 1.
SearchLineFuel(prev_line) ==
    LET ok(b, e) == /\ e > b
                    /\ \A k \in b..(e - 1) : prev_line[k] # "\n"
                    /\ FuelTail(prev_line, e) # 0
        starts == {b \in 1..Len(prev_line) : \E e \in (b + 1)..Len(prev_line) : ok(b, e)}
    IN  IF starts = {} THEN None
        ELSE LET b == Min(starts)
                 e == Min({x \in (b + 1)..Len(prev_line) : ok(b, x)})
             IN  FuelResult(prev_line, b, e)

\* re.search(r'([A-Z][A-Za-z\s]+?)\s+(\d{4})\s+(?:diesel|gas|gasoline)', page_text,
\* re.IGNORECASE)
SearchTextFuel(page_text) ==
    LET ok(b, e) == /\ e >= b + 2
                    /\ IsAlpha(page_text[b])
                    /\ \A k \in (b + 1)..(e - 1) :
                           IsAlpha(page_text[k]) \/ IsSpace(page_text[k])
                    /\ FuelTail(page_text, e) # 0
        starts == {b \in 1..Len(page_text) : \E e \in (b + 2)..Len(page_text) : ok(b, e)}
    IN  IF starts = {} THEN None
        ELSE LET b == Min(starts)
                 e == Min({x \in (b + 2)..Len(page_text) : ok(b, x)})
             IN  FuelResult(page_text, b, e)

(***************************************************************************)
(* extract_vehicle_vin                                                     *)
(***************************************************************************)
\* the one-word names of the first pattern of vehicle_patterns
VocabWords == {<<"S", "t", "e", "a", "l", "t", "h">>, <<"B", "u", "s">>, <<"A", "p", "o", "l", "l", "o">>, <<"C", "o", "l", "t">>, <<"F", "o", "r", "d">>, <<"O", "u", "t", "l", "a", "w">>,
               <<"R", "e", "n", "e", "g", "a", "d", "e">>, <<"V", "i", "p", "e", "r">>, <<"Z", "e", "u", "s">>}

\* its two-word names, Bases\s+Loaded and Slow\s+Motion
VocabPairs == {<<<<"B", "a", "s", "e", "s">>, <<"L", "o", "a", "d", "e", "d">>>>, <<<<"S", "l", "o", "w">>, <<"M", "o", "t", "i", "o", "n">>>>}

\* the indexes after a vocabulary name that stands at index b
VocabEnds(t, b) ==
    {b + Len(w) : w \in {v \in VocabWords : MatchAt(t, b, v)}}
    \cup {SkipSpaces(t, b + Len(p[1])) + Len(p[2]) :
            p \in {q \in VocabPairs :
                     /\ MatchAt(t, b, q[1])
                     /\ b + Len(q[1]) <= Len(t)
                     /\ IsSpace(t[b + Len(q[1])])
                     /\ MatchAt(t, SkipSpaces(t, b + Len(q[1])), q[2])}}

\* \s+\d{4} from index p: the index of the four digits, 0 when it does not match
SpaceDigits(t, p) ==
    IF p >= 1 /\ p <= Len(t) /\ IsSpace(t[p])
    THEN LET d == SkipSpaces(t, p)
         IN  IF FourDigitsAt(t, d) THEN d ELSE 0
    ELSE 0

\* re.search of (?:Stealth|...|Zeus)\s+\d{4}: match.group(0), or None
SearchVocab(page_text) ==
    LET ok(b) == \E p \in VocabEnds(page_text, b) : SpaceDigits(page_text, p) # 0
        starts == {b \in 1..Len(page_text) : ok(b)}
    IN  IF starts = {} THEN None
        ELSE LET b == Min(starts)
                 p == CHOOSE x \in VocabEnds(page_text, b) : SpaceDigits(page_text, x) # 0
             IN  SubSeq(page_text, b, SpaceDigits(page_text, p) + 3)

\* [A-Z][a-z]+ at index b: the index after it, 0 when it does not match
CapWord(t, b) ==
    IF /\ b >= 1
       /\ b + 1 <= Len(t)
       /\ t[b] \in UpperCase
       /\ t[b + 1] \in LowerCase
    THEN SkipLower(t, b + 1) ELSE 0

\* (?:\s+[A-Z][a-z]+)* from index p, greedy: the index after the last word taken
RECURSIVE CapChain(_, _)
CapChain(t, p) ==
    IF p <= Len(t) /\ IsSpace(t[p]) /\ CapWord(t, SkipSpaces(t, p)) # 0
    THEN CapChain(t, CapWord(t, SkipSpaces(t, p)))
    ELSE p

\* re.search of [A-Z][a-z]+(?:\s+[A-Z][a-z]+)*\s+\d{4}: match.group(0), or None
SearchCapitalized(page_text) ==
    LET d(b) == LET w == CapWord(page_text, b)
                IN  IF w = 0 THEN 0 ELSE SpaceDigits(page_text, CapChain(page_text, w))
        starts == {b \in 1..Len(page_text) : d(b) # 0}
    IN  IF starts = {} THEN None
        ELSE LET b == Min(starts)
             IN  SubSeq(page_text, b, d(b) + 3)

S_venicle == <<"v", "e", "n", "i", "c", "l", "e">>

S_vehicle == <<"v", "e", "h", "i", "c", "l", "e">>

S_invoice == <<"i", "n", "v", "o", "i", "c", "e">>

\* re.search of <word>[lI][dD]\s+[a-z]*\s*(\d{4}) under re.IGNORECASE: group 1, or None
SearchVehicleId(page_text, word) ==
    LET d(b) ==
            IF /\ MatchAtCI(page_text, b, word)
               /\ b + Len(word) + 2 <= Len(page_text)
               /\ ToLower(page_text[b + Len(word)]) \in {"l", "i"}
               /\ ToLower(page_text[b + Len(word) + 1]) = "d"
               /\ IsSpace(page_text[b + Len(word) + 2])
            THEN LET a == SkipSpaces(page_text, b + Len(word) + 2)
                     c == SkipSpaces(page_text, SkipAlpha(page_text, a))
                 IN  IF FourDigitsAt(page_text, c) THEN c ELSE 0
            ELSE 0
        starts == {b \in 1..Len(page_text) : d(b) # 0}
    IN  IF starts = {} THEN None
        ELSE LET c == d(Min(starts))
             IN  SubSeq(page_text, c, c + 3)

\* re.search of INVOICE[#H]\s+\d+\s*(\d{4}) under re.IGNORECASE: group 1, or None.
\* \d+ takes the whole run when four digits follow it after whitespace, and else
\* gives back its last four digits to the group.
SearchInvoice(page_text) ==
    LET d(b) ==
            IF /\ MatchAtCI(page_text, b, S_invoice)
               /\ b + 8 <= Len(page_text)
               /\ ToLower(page_text[b + 7]) \in {"#", "h"}
               /\ IsSpace(page_text[b + 8])
            THEN LET a == SkipSpaces(page_text, b + 8)
                 IN  IF a <= Len(page_text) /\ IsDigit(page_text[a])
                     THEN LET e == SkipDigits(page_text, a)
                              c == SkipSpaces(page_text, e)
                          IN  IF FourDigitsAt(page_text, c) THEN c
                              ELSE IF e - a >= 5 THEN e - 4
                              ELSE 0
                     ELSE 0
            ELSE 0
        starts == {b \in 1..Len(page_text) : d(b) # 0}
    IN  IF starts = {} THEN None
        ELSE LET c == d(Min(starts))
             IN  SubSeq(page_text, c, c + 3)

\* Method 1, first check, at line i (from 1): the line holds "Vehicle" and
\* "Fuel Type" and the line before it matches name/4 digits/fuel word
LabeledFuelLine(lines, i) ==
    LET stripped_line == Strip(lines[i])
    IN  IF Contains(stripped_line, S_Vehicle) /\ Contains(stripped_line, S_FuelType) /\ i > 1
        THEN SearchLineFuel(Strip(lines[i - 1]))
        ELSE None

\* Method 1, second check, at line i: the line is exactly "Vehicle" and the line
\* before it holds a digit run
LabeledVehicleLine(lines, i) ==
    LET stripped_line == Strip(lines[i])
    IN  IF stripped_line = S_Vehicle /\ i > 1
        THEN LET vehicle_name == Strip(lines[i - 1])
                 vin_last_4 == extract_last_4_digits(vehicle_name)
             IN  IF vehicle_name # <<>> /\ vin_last_4 # Unknown
                 THEN <<vin_last_4, vehicle_name>>
                 ELSE None
        ELSE None

\* Method 1: the loop over the lines, from line i on
RECURSIVE Method1(_, _)
Method1(lines, i) ==
    IF i > Len(lines) THEN None
    ELSE IF LabeledFuelLine(lines, i) # None THEN LabeledFuelLine(lines, i)
    ELSE IF LabeledVehicleLine(lines, i) # None THEN LabeledVehicleLine(lines, i)
    ELSE Method1(lines, i + 1)

\* Method 2: the name/4 digits/fuel word pattern anywhere in the text
Method2(page_text) == SearchTextFuel(page_text)

\* Method 3: the vocabulary pattern, then the capitalized-words pattern
Method3(page_text) ==
    LET try(m) == IF m # None /\ extract_last_4_digits(m) # Unknown
                  THEN <<extract_last_4_digits(m), Strip(m)>>
                  ELSE None
        vocab == try(SearchVocab(page_text))
    IN  IF vocab # None THEN vocab ELSE try(SearchCapitalized(page_text))

\* Method 4: the three bottom_vin_patterns in turn
Method4(page_text) ==
    LET venicle == SearchVehicleId(page_text, S_venicle)
        vehicle == SearchVehicleId(page_text, S_vehicle)
        m == IF venicle # None THEN venicle
             ELSE IF vehicle # None THEN vehicle
             ELSE SearchInvoice(page_text)
    IN  IF m # None THEN <<m, S_Vehicle \o <<" ">> \o m>> ELSE None

extract_vehicle_vin_m3_first(page_text) ==
    LET lines == Split(page_text)
    IN  IF Method1(lines, 1) # None THEN Method1(lines, 1)
        ELSE IF Method3(page_text) # None THEN Method3(page_text)
        ELSE IF Method2(page_text) # None THEN Method2(page_text)
        ELSE IF Method4(page_text) # None THEN Method4(page_text)
        ELSE <<Unknown, Unknown>>

extract_vehicle_vin(page_text) ==
    LET lines == Split(page_text)
    IN  IF Method1(lines, 1) # None THEN Method1(lines, 1)
        ELSE IF Method2(page_text) # None THEN Method2(page_text)
        ELSE IF Method3(page_text) # None THEN Method3(page_text)
        ELSE IF Method4(page_text) # None THEN Method4(page_text)
        ELSE <<Unknown, Unknown>>

(***************************************************************************)
(* The sorter at rest, while a pure function is exercised on its own       *)
(***************************************************************************)
SortIdle ==
    /\ doc = <<>>
    /\ use_ocr = FALSE
    /\ OCR_AVAILABLE = FALSE
    /\ needs_ocr = FALSE
    /\ page_num = 0
    /\ vin_pages = <<>>
    /\ writer = <<>>
    /\ outFile = [state |-> "absent", pages |-> <<>>]
    /\ fed = <<>>
    /\ garbleChecked = {}
    /\ postThrown = {}
    /\ failure = "none"

\* no request is being handled
HandlerIdle ==
    /\ hpc = "idle"
    /\ event = [method |-> "", path |-> <<>>, body |-> "", file |-> <<>>]
    /\ response = 0
    /\ inFile = "absent"
    /\ header = None
    /\ s3 = [uploaded |-> FALSE, input_deleted |-> FALSE]
    /\ cleaned = [removed |-> {}, kept |-> {}]

(***************************************************************************)
(* extract_last_4_digits on every short string, and on the documented ones *)
(***************************************************************************)
MaxLen == 6

NormAlphabet == {"1", "2", "a"}

NormExamples == {<<"5", "8", "7", "5">>, <<"1", "2", "3", "4", "5", "6">>, <<"4", "2">>, <<"n", "o", " ", "d", "i", "g", "i", "t", "s", " ", "h", "e", "r", "e">>,
                 <<"A", "p", "o", "l", "l", "o", " ", "5", "8", "7", "5">>, <<"6", "5", "0", "9">>, <<"S", "t", "e", "a", "l", "t", "h", " ", "6", "5", "0", "9">>}

NormInputs ==
    UNION {[1..n -> NormAlphabet] : n \in 0..MaxLen} \cup NormExamples

InitNorm ==
    /\ pc = "norm_call"
    /\ arg \in NormInputs
    /\ ret = None
    /\ SortIdle
    /\ HandlerIdle

NormCall ==
    /\ pc = "norm_call"
    /\ ret' = extract_last_4_digits(arg)
    /\ pc' = "norm_returned"
    /\ UNCHANGED <<arg, sortVars, handlerVars>>

NextNorm == NormCall

SpecNorm == InitNorm /\ [][NextNorm]_vars

(***************************************************************************)
(* extract_vehicle_vin on page texts put together from receipt fragments   *)
(***************************************************************************)
MaxBlocks == 2

Blocks == <<
    <<"A", "p", "o", "l", "l", "o", " ", "5", "8", "7", "5", "\n", "V", "e", "h", "i", "c", "l", "e">>,
    <<"S", "t", "e", "a", "l", "t", "h", " ", "6", "5", "0", "9", " ", "d", "i", "e", "s", "e", "l", "\n", "V", "e", "h", "i", "c", "l", "e", " ", "F", "u", "e", "l", " ", "T", "y", "p", "e">>,
    <<"V", "e", "h", "i", "c", "l", "e">>,
    <<"V", "e", "h", "i", "c", "l", "e", " ", "F", "u", "e", "l", " ", "T", "y", "p", "e">>,
    <<"b", "o", "b", " ", "1", "2", "3", "4", " ", "g", "a", "s">>,
    <<"Z", "e", "u", "s", " ", "0", "0", "4", "2">>,
    <<"S", "l", "o", "w", " ", " ", "M", "o", "t", "i", "o", "n", " ", "7", "0", "0", "1">>,
    <<"A", "c", "m", "e", " ", "T", "r", "u", "c", "k", " ", "3", "1", "4", "1">>,
    <<"v", "e", "h", "i", "c", "l", "e", "I", "d", " ", "a", "b", " ", "4", "3", "2", "1">>,
    <<"v", "e", "n", "i", "c", "l", "e", "I", "D", " ", "9", "0", "0", "1">>,
    <<"I", "N", "V", "O", "I", "C", "E", "#", " ", "1", "2", "3", "4", "5">>,
    <<"I", "N", "V", "O", "I", "C", "E", "#", " ", "7", "7", " ", "8", "8", "8", "8">>,
    <<"T", "r", "u", "c", "k", " ", "1", "2">>,
    <<"n", "o", " ", "d", "i", "g", "i", "t", "s", " ", "h", "e", "r", "e">>,
    <<>> >>

\* the fragments bs, one per line group
RECURSIVE JoinBlocks(_)
JoinBlocks(bs) ==
    IF Len(bs) = 0 THEN <<>>
    ELSE IF Len(bs) = 1 THEN Blocks[bs[1]]
    ELSE Blocks[bs[1]] \o <<"\n">> \o JoinBlocks(Tail(bs))

ExtractInputs ==
    {JoinBlocks(bs) : bs \in UNION {[1..n -> 1..Len(Blocks)] : n \in 0..MaxBlocks}}

InitExtract ==
    /\ pc = "extract_call"
    /\ arg \in ExtractInputs
    /\ ret = None
    /\ SortIdle
    /\ HandlerIdle

ExtractCall ==
    /\ pc = "extract_call"
    /\ ret' = extract_vehicle_vin(arg)
    /\ pc' = "extract_returned"
    /\ UNCHANGED <<arg, sortVars, handlerVars>>

NextExtract == ExtractCall

SpecExtract == InitExtract /\ [][NextExtract]_vars

(***************************************************************************)
(* is_text_garbled                                                         *)
(***************************************************************************)
IsAlnum(c) == IsAlpha(c) \/ IsDigit(c)

\* the readable share compared with <= in place of <
is_text_garbled_at_most_half(text) ==
    LET encoded == \E i \in 1..Len(text) :
                       /\ text[i] = "/"
                       /\ \/ i + 1 <= Len(text) /\ IsDigit(text[i + 1])
                          \/ /\ i + 2 <= Len(text)
                             /\ text[i + 1] = "i"
                             /\ IsDigit(text[i + 2])
        readable_chars == Cardinality({i \in 1..Len(text) :
                                          IsAlnum(text[i]) \/ IsSpace(text[i])})
        total_chars == Len(text)
    IN  IF encoded THEN TRUE
        ELSE total_chars > 0 /\ 2 * readable_chars <= total_chars

is_text_garbled(text) ==
    LET encoded == \E i \in 1..Len(text) :
                       /\ text[i] = "/"
                       /\ \/ i + 1 <= Len(text) /\ IsDigit(text[i + 1])
                          \/ /\ i + 2 <= Len(text)
                             /\ text[i + 1] = "i"
                             /\ IsDigit(text[i + 2])
        readable_chars == Cardinality({i \in 1..Len(text) :
                                          IsAlnum(text[i]) \/ IsSpace(text[i])})
        total_chars == Len(text)
    IN  IF encoded THEN TRUE
        ELSE total_chars > 0 /\ 2 * readable_chars < total_chars

\* is_text_garbled on every short text over marks, letters, digits and blanks
MaxGarbleLen == 4

GarbleAlphabet == {"/", "i", "1", "a", " ", "#"}

GarbleInputs == UNION {[1..n -> GarbleAlphabet] : n \in 0..MaxGarbleLen}

InitGarbled ==
    /\ pc = "garbled_call"
    /\ arg \in GarbleInputs
    /\ ret = None
    /\ SortIdle
    /\ HandlerIdle

GarbledCall ==
    /\ pc = "garbled_call"
    /\ ret' = is_text_garbled(arg)
    /\ pc' = "garbled_returned"
    /\ UNCHANGED <<arg, sortVars, handlerVars>>

NextGarbled == GarbledCall

SpecGarbled == InitGarbled /\ [][NextGarbled]_vars

(***************************************************************************)
(* sort_pdf_by_vehicle                                                     *)
(***************************************************************************)
MaxPages == 3

MaxReportFailures == 1

\* The pages a document is made of: whether page.extract_text() throws, the
\* native text it returns otherwise, whether the OCR engine fails on the page,
\* and the text it reads otherwise.
PageKinds == <<
    [throws |-> FALSE, native |-> <<"B", "u", "s", " ", "4", "2", "\n", "V", "e", "h", "i", "c", "l", "e">>,
     ocr_error |-> FALSE, ocr |-> <<"B", "u", "s", " ", "0", "0", "4", "2", " ", "d", "i", "e", "s", "e", "l", "\n", "V", "e", "h", "i", "c", "l", "e", " ", "F", "u", "e", "l", " ", "T", "y", "p", "e">>],
    [throws |-> FALSE, native |-> <<"Z", "e", "u", "s", " ", "0", "0", "0", "7">>,
     ocr_error |-> FALSE, ocr |-> <<"Z", "e", "u", "s", " ", "0", "0", "0", "1">>],
    [throws |-> TRUE, native |-> <<>>,
     ocr_error |-> FALSE, ocr |-> <<"v", "e", "h", "i", "c", "l", "e", "I", "d", " ", "0", "0", "4", "2">>],
    [throws |-> FALSE, native |-> <<"/", "0", "/", "1", "/", "2">>,
     ocr_error |-> FALSE, ocr |-> <<"A", "p", "o", "l", "l", "o", " ", "0", "0", "0", "7", " ", "g", "a", "s">>],
    [throws |-> FALSE, native |-> <<"n", "o", " ", "d", "i", "g", "i", "t", "s", " ", "h", "e", "r", "e">>,
     ocr_error |-> TRUE, ocr |-> <<>>],
    [throws |-> FALSE, native |-> <<"A", "c", "m", "e", " ", "T", "r", "u", "c", "k", " ", "3", "1", "4", "1">>,
     ocr_error |-> FALSE, ocr |-> <<"I", "N", "V", "O", "I", "C", "E", "#", " ", "1", "2", "3", "4", "5">>] >>

Documents ==
    UNION {[1..n -> {PageKinds[k] : k \in 1..Len(PageKinds)}] : n \in 0..MaxPages}

total_pages == Len(doc)

\* extract_text_with_ocr(input_pdf_path, p), for page p counted from 0
extract_text_with_ocr(p) ==
    IF ~OCR_AVAILABLE THEN <<>>
    ELSE IF doc[p + 1].ocr_error THEN <<>>
    ELSE doc[p + 1].ocr

\* vin_pages[vin].append(entry) on the defaultdict, which keeps insertion order
BucketAppend(buckets, vin, entry) ==
    IF \E i \in 1..Len(buckets) : buckets[i].vin = vin
    THEN [i \in 1..Len(buckets) |->
            IF buckets[i].vin = vin
            THEN [buckets[i] EXCEPT !.pages = Append(@, entry)]
            ELSE buckets[i]]
    ELSE Append(buckets, [vin |-> vin, pages |-> <<entry>>])

sort_key_unknown_first(vin) ==
    IF vin = Unknown THEN <<0, <<"9", "9", "9", "9">> >> ELSE <<1, vin>>

sort_key(vin) ==
    IF vin = Unknown THEN <<1, <<"9", "9", "9", "9">> >> ELSE <<0, vin>>

\* tuple comparison of two sort keys
KeyLess(a, b) == a[1] < b[1] \/ (a[1] = b[1] /\ StrLess(a[2], b[2]))

\* sorted(vin_pages.keys(), key=sort_key), each key with its list; sorted() is
\* stable, so equal keys keep the order of the dict
sorted_vins(buckets) ==
    LET less(a, b) == KeyLess(sort_key(a.vin), sort_key(b.vin))
        rank(i) == 1 + Cardinality({j \in 1..Len(buckets) :
                           \/ less(buckets[j], buckets[i])
                           \/ ~less(buckets[i], buckets[j]) /\ j < i})
    IN  [r \in 1..Len(buckets) |-> buckets[CHOOSE i \in 1..Len(buckets) : rank(i) = r]]

\* sorted(vin_pages[vin], key=lambda x: x[0]), stable
SortedByPage(pages) ==
    LET rank(i) == 1 + Cardinality({j \in 1..Len(pages) :
                           \/ pages[j][1] < pages[i][1]
                           \/ pages[j][1] = pages[i][1] /\ j < i})
    IN  [r \in 1..Len(pages) |-> pages[CHOOSE i \in 1..Len(pages) : rank(i) = r]]

\* the add_page calls of one group
GroupPages(bucket) ==
    [i \in 1..Len(bucket.pages) |->
        [vin |-> bucket.vin, page |-> SortedByPage(bucket.pages)[i][1]]]

RECURSIVE AddPages(_)
AddPages(groups) ==
    IF groups = <<>> THEN <<>>
    ELSE GroupPages(Head(groups)) \o AddPages(Tail(groups))

Init ==
    /\ pc = "start"
    /\ doc \in Documents
    /\ use_ocr \in BOOLEAN
    /\ OCR_AVAILABLE \in BOOLEAN
    /\ needs_ocr = FALSE
    /\ page_num = 0
    /\ vin_pages = <<>>
    /\ writer = <<>>
    /\ outFile = [state |-> "absent", pages |-> <<>>]
    /\ fed = <<>>
    /\ garbleChecked = {}
    /\ postThrown = {}
    /\ failure = "none"
    /\ arg = None
    /\ ret = None
    /\ HandlerIdle

\* lines 214-216: the input path does not exist
InputMissing ==
    /\ pc = "start"
    /\ pc' = "sys_exit"
    /\ failure' = "input_missing"
    /\ UNCHANGED <<doc, use_ocr, OCR_AVAILABLE, needs_ocr, page_num, vin_pages, writer,
                   outFile, fed, garbleChecked, postThrown, arg, ret, handlerVars>>

\* lines 218-220: the input path does not end in .pdf
InputNotPdf ==
    /\ pc = "start"
    /\ pc' = "sys_exit"
    /\ failure' = "not_pdf"
    /\ UNCHANGED <<doc, use_ocr, OCR_AVAILABLE, needs_ocr, page_num, vin_pages, writer,
                   outFile, fed, garbleChecked, postThrown, arg, ret, handlerVars>>

\* lines 228-232: PdfReader raises
ReaderFails ==
    /\ pc = "start"
    /\ pc' = "sys_exit"
    /\ failure' = "unreadable"
    /\ UNCHANGED <<doc, use_ocr, OCR_AVAILABLE, needs_ocr, page_num, vin_pages, writer,
                   outFile, fed, garbleChecked, postThrown, arg, ret, handlerVars>>

\* lines 228-235: the document is open
ReaderOpens ==
    /\ pc = "start"
    /\ pc' = "detect"
    /\ UNCHANGED <<sortVars, arg, ret, handlerVars>>

\* lines 237-251: the document-wide choice of the text source
DetectOcr ==
    /\ pc = "detect"
    /\ IF use_ocr
       THEN /\ needs_ocr' = TRUE
            /\ pc' = "loop"
            /\ UNCHANGED garbleChecked
       ELSE IF total_pages = 0 \/ doc[1].throws
       THEN \* reader.pages[0] or extract_text() raises: except Exception
            /\ needs_ocr' = TRUE
            /\ pc' = "loop"
            /\ UNCHANGED garbleChecked
       ELSE /\ garbleChecked' = garbleChecked \cup {0}
            /\ needs_ocr' = is_text_garbled(doc[1].native)
            /\ pc' = IF is_text_garbled(doc[1].native) /\ ~OCR_AVAILABLE
                     THEN "sys_exit" ELSE "loop"
    /\ failure' = IF pc' = "sys_exit" THEN "configuration" ELSE "none"
    /\ UNCHANGED <<doc, use_ocr, OCR_AVAILABLE, page_num, vin_pages, writer, outFile,
                   fed, postThrown, arg, ret, handlerVars>>

\* lines 263-266: the text of page p and where it comes from
PageSource(p) == IF needs_ocr THEN "ocr" ELSE "native"

PageText_page0_native(p) ==
    IF needs_ocr /\ p # 0 THEN extract_text_with_ocr(p) ELSE doc[p + 1].native

PageText(p) == IF needs_ocr THEN extract_text_with_ocr(p) ELSE doc[p + 1].native

\* lines 263-266 raise: native extraction of page p throws
TextThrows(p) == ~needs_ocr /\ doc[p + 1].throws

\* lines 272-275: a progress line is printed for this page
Reports(p) == p < 5 \/ (p + 1) % 10 = 0 \/ (p + 1) % 50 = 0

\* lines 261-275: a page is extracted, bucketed and reported
PageBucketed ==
    /\ pc = "loop"
    /\ page_num < total_pages
    /\ ~TextThrows(page_num)
    /\ LET text == PageText(page_num)
           r == extract_vehicle_vin(text)
       IN  /\ vin_pages' = BucketAppend(vin_pages, r[1], <<page_num, r[2]>>)
           /\ fed' = Append(fed, [page |-> page_num, src |-> PageSource(page_num),
                                  text |-> text, vin |-> r[1]])
    /\ page_num' = page_num + 1
    /\ UNCHANGED <<pc, doc, use_ocr, OCR_AVAILABLE, needs_ocr, writer, outFile,
                   garbleChecked, postThrown, failure, arg, ret, handlerVars>>

\* lines 261-279: a page is extracted and bucketed, then its progress line
\* raises, and the handler buckets the page under "Unknown"
PageReportThrows ==
    /\ pc = "loop"
    /\ page_num < total_pages
    /\ ~TextThrows(page_num)
    /\ Reports(page_num)
    /\ Cardinality(postThrown) < MaxReportFailures
    /\ LET text == PageText(page_num)
           r == extract_vehicle_vin(text)
       IN  /\ vin_pages' = BucketAppend(BucketAppend(vin_pages, r[1], <<page_num, r[2]>>),
                                        Unknown, <<page_num, Unknown>>)
           /\ fed' = Append(fed, [page |-> page_num, src |-> PageSource(page_num),
                                  text |-> text, vin |-> r[1]])
    /\ postThrown' = postThrown \cup {page_num}
    /\ page_num' = page_num + 1
    /\ UNCHANGED <<pc, doc, use_ocr, OCR_AVAILABLE, needs_ocr, writer, outFile,
                   garbleChecked, failure, arg, ret, handlerVars>>

PageExtractThrows_abort ==
    /\ pc = "loop"
    /\ page_num < total_pages
    /\ TextThrows(page_num)
    /\ pc' = "sys_exit"
    /\ failure' = "page"
    /\ UNCHANGED <<doc, use_ocr, OCR_AVAILABLE, needs_ocr, page_num, vin_pages, writer,
                   outFile, fed, garbleChecked, postThrown, arg, ret, handlerVars>>

\* lines 261-266, 277-279: extraction of the page raises, and the handler
\* buckets the page under "Unknown"
PageExtractThrows ==
    /\ pc = "loop"
    /\ page_num < total_pages
    /\ TextThrows(page_num)
    /\ vin_pages' = BucketAppend(vin_pages, Unknown, <<page_num, Unknown>>)
    /\ page_num' = page_num + 1
    /\ UNCHANGED <<pc, doc, use_ocr, OCR_AVAILABLE, needs_ocr, writer, outFile,
                   fed, garbleChecked, postThrown, failure, arg, ret, handlerVars>>

\* lines 281-305: the groups are ordered and their pages added to the writer
BuildOutput ==
    /\ pc = "loop"
    /\ page_num = total_pages
    /\ writer' = AddPages(sorted_vins(vin_pages))
    /\ pc' = "write"
    /\ UNCHANGED <<doc, use_ocr, OCR_AVAILABLE, needs_ocr, page_num, vin_pages, outFile,
                   fed, garbleChecked, postThrown, failure, arg, ret, handlerVars>>

WrittenPages == [i \in 1..Len(writer) |-> writer[i].page]

\* lines 308-312: the output is written and reported
WriteSucceeds ==
    /\ pc = "write"
    /\ outFile' = [state |-> "complete", pages |-> WrittenPages]
    /\ pc' = "returned"
    /\ UNCHANGED <<doc, use_ocr, OCR_AVAILABLE, needs_ocr, page_num, vin_pages, writer,
                   fed, garbleChecked, postThrown, failure, arg, ret, handlerVars>>

\* lines 309, 313-315: open() raises, nothing is written
OpenFails ==
    /\ pc = "write"
    /\ pc' = "sys_exit"
    /\ failure' = "output"
    /\ UNCHANGED <<doc, use_ocr, OCR_AVAILABLE, needs_ocr, page_num, vin_pages, writer,
                   outFile, fed, garbleChecked, postThrown, arg, ret, handlerVars>>

\* lines 309-310, 313-315: the file is created and writer.write raises part way
WriteFails ==
    /\ pc = "write"
    /\ outFile' = [state |-> "partial", pages |-> <<>>]
    /\ failure' = "output"
    /\ pc' = "sys_exit"
    /\ UNCHANGED <<doc, use_ocr, OCR_AVAILABLE, needs_ocr, page_num, vin_pages, writer,
                   fed, garbleChecked, postThrown, arg, ret, handlerVars>>

\* lines 309-315: the file is written and closed, then the success report raises
WriteReportThrows ==
    /\ pc = "write"
    /\ outFile' = [state |-> "complete", pages |-> WrittenPages]
    /\ failure' = "output"
    /\ pc' = "sys_exit"
    /\ UNCHANGED <<doc, use_ocr, OCR_AVAILABLE, needs_ocr, page_num, vin_pages, writer,
                   fed, garbleChecked, postThrown, arg, ret, handlerVars>>

Next ==
    \/ InputMissing
    \/ InputNotPdf
    \/ ReaderFails
    \/ ReaderOpens
    \/ DetectOcr
    \/ PageBucketed
    \/ PageReportThrows
    \/ PageExtractThrows
    \/ BuildOutput
    \/ WriteSucceeds
    \/ OpenFails
    \/ WriteFails
    \/ WriteReportThrows

Spec == Init /\ [][Next]_vars

(***************************************************************************)
(* lambda_handler.py: handler and the request handlers it routes to        *)
(***************************************************************************)
MaxUploadPages == 1

\* b"%PDF"
S_PDF == <<"%", "P", "D", "F">>

\* the first bytes of the files a request can carry or name
Files == {<<>>, <<"%", "P", "D">>, S_PDF, <<"%", "P", "D", "F", "-", "1">>,
          <<"<", "h", "t", "m", "l">>, <<"P", "D", "F", "%", "%">>}

Methods == {"GET", "POST", "OPTIONS"}

\* rawPath, by its segments
Paths == {<<>>, <<"api", "health">>, <<"api", "upload-url">>, <<"api", "process-s3">>,
          <<"api", "process">>, <<"api", "other">>}

\* path.endswith("/" + name) or path == "/api/" + name
PathIs(path, name) == Len(path) >= 1 /\ path[Len(path)] = name

\* what the body of a POST to /process, or to /process-s3, holds
ProcessBodies == {"bad_base64", "not_multipart", "no_boundary", "multipart"}

S3Bodies == {"bad_json", "no_key", "key"}

IsProcess(e) == e.method = "POST" /\ PathIs(e.path, "process")

IsProcessS3(e) == e.method = "POST" /\ PathIs(e.path, "process-s3")

Events ==
    {e \in [method : Methods, path : Paths,
            body : ProcessBodies \cup S3Bodies \cup {""}, file : Files] :
        IF IsProcessS3(e) THEN e.body \in S3Bodies /\ (e.body # "key" => e.file = <<>>)
        ELSE IF IsProcess(e)
        THEN e.body \in ProcessBodies /\ (e.body # "multipart" => e.file = <<>>)
        ELSE e.body = "" /\ e.file = <<>>}

\* f.read(4)
Read4(bytes) == SubSeq(bytes, 1, IF Len(bytes) < 4 THEN Len(bytes) ELSE 4)

\* the pages PdfReader finds in a file, when it can read it
UploadDocuments(bytes) ==
    IF Read4(bytes) = S_PDF
    THEN UNION {[1..n -> {PageKinds[k] : k \in 1..Len(PageKinds)}] : n \in 0..MaxUploadPages}
    ELSE {<<>>}

\* everything sort_pdf_by_vehicle keeps but the file at output_pdf_path
sortLocals == <<pc, doc, use_ocr, OCR_AVAILABLE, needs_ocr, page_num, vin_pages,
                writer, fed, garbleChecked, postThrown, failure, arg, ret>>

InitHandler ==
    /\ hpc = "invoked"
    /\ event \in Events
    /\ response = 0
    /\ inFile = "absent"
    /\ header = None
    /\ s3 = [uploaded |-> FALSE, input_deleted |-> FALSE]
    /\ cleaned = [removed |-> {}, kept |-> {}]
    /\ pc = "not_called"
    /\ doc \in UploadDocuments(event.file)
    /\ use_ocr \in BOOLEAN
    /\ OCR_AVAILABLE \in BOOLEAN
    /\ needs_ocr = FALSE
    /\ page_num = 0
    /\ vin_pages = <<>>
    /\ writer = <<>>
    /\ outFile = [state |-> "absent", pages |-> <<>>]
    /\ fed = <<>>
    /\ garbleChecked = {}
    /\ postThrown = {}
    /\ failure = "none"
    /\ arg = None
    /\ ret = None

\* the header check: readable is whether open() and read() succeed
validate_pdf_magic_number_readable(readable) == readable

validate_pdf_magic_number(readable) == readable /\ Read4(event.file) = S_PDF

\* return create_response(status, ...) outside the inner try
Reply(status) ==
    /\ response' = status
    /\ hpc' = "returned"
    /\ UNCHANGED <<sortVars, pc, arg, ret, event, inFile, header, s3, cleaned>>

\* the temp files there are when the inner try is left
TempFiles(input_now) ==
    {p \in {"input"} : input_now = "present"} \cup {p \in {"output"} : outFile.state # "absent"}

\* the finally block that never runs
Finally_skipped(input_now, fails) ==
    /\ inFile' = input_now
    /\ outFile' = outFile
    /\ cleaned' = [removed |-> {}, kept |-> {}]

\* the finally block: each temp file that exists is removed, unless os.remove raises
Finally(input_now, fails) ==
    /\ inFile' = IF "input" \in fails THEN input_now ELSE "absent"
    /\ outFile' = IF "output" \in fails THEN outFile ELSE [state |-> "absent", pages |-> <<>>]
    /\ cleaned' = [removed |-> TempFiles(input_now) \ fails, kept |-> fails]

\* the inner try is left with a response, or with an exception that becomes a 500
Leave(status, input_now) ==
    /\ \E fails \in SUBSET TempFiles(input_now) : Finally(input_now, fails)
    /\ response' = status
    /\ hpc' = "returned"

\* handler, lines 361-367: the CORS preflight
Options ==
    /\ hpc = "invoked"
    /\ event.method = "OPTIONS"
    /\ Reply(200)

\* handler, lines 377-378, and handle_health
Health ==
    /\ hpc = "invoked"
    /\ event.method # "OPTIONS"
    /\ PathIs(event.path, "health")
    /\ Reply(200)

\* handler, lines 379-380, and handle_upload_url: the presigned URL, or a 500 when
\* generate_presigned_url raises
UploadUrl ==
    /\ hpc = "invoked"
    /\ event.method # "OPTIONS"
    /\ PathIs(event.path, "upload-url")
    /\ \E presigned \in BOOLEAN : Reply(IF presigned THEN 200 ELSE 500)

\* handler, lines 381-390: a processing path with another method than POST
MethodNotAllowed ==
    /\ hpc = "invoked"
    /\ event.method \notin {"OPTIONS", "POST"}
    /\ PathIs(event.path, "process-s3") \/ PathIs(event.path, "process")
    /\ Reply(405)

\* handler, lines 391-392
NotFound ==
    /\ hpc = "invoked"
    /\ event.method # "OPTIONS"
    /\ \A name \in {"health", "upload-url", "process-s3", "process"} :
           ~PathIs(event.path, name)
    /\ Reply(404)

\* handler, lines 381-383 and 386-388: POST to a processing path
RouteToProcessing ==
    /\ hpc = "invoked"
    /\ IsProcess(event) \/ IsProcessS3(event)
    /\ hpc' = "parse"
    /\ UNCHANGED <<sortVars, pc, arg, ret, event, response, inFile, header, s3, cleaned>>

\* handle_process, lines 106-156: the upload is taken out of the request
ProcessParse ==
    /\ hpc = "parse"
    /\ IsProcess(event)
    /\ IF event.body = "bad_base64" THEN Reply(500)
       ELSE IF event.body \in {"not_multipart", "no_boundary"} THEN Reply(400)
       ELSE IF event.file = <<>> THEN Reply(400)
       ELSE /\ hpc' = "save"
            /\ UNCHANGED <<sortVars, pc, arg, ret, event, response, inFile, header,
                           s3, cleaned>>

\* handle_process, lines 158-163: the upload is saved at input_path
ProcessSave ==
    /\ hpc = "save"
    /\ IsProcess(event)
    /\ inFile' = "present"
    /\ hpc' = "validate"
    /\ UNCHANGED <<sortVars, pc, arg, ret, event, response, header, s3, cleaned>>

\* handle_process, lines 160-161, 197-208: open() or write() raises
ProcessSaveFails ==
    /\ hpc = "save"
    /\ IsProcess(event)
    /\ \E left \in {"absent", "present"} : Leave(500, left)
    /\ UNCHANGED <<sortLocals, event, header, s3>>

\* handle_process, lines 165-175: the header check, then the call of
\* sort_pdf_by_vehicle
ProcessValidate ==
    /\ hpc = "validate"
    /\ IsProcess(event)
    /\ \E readable \in BOOLEAN :
          /\ header' = IF readable THEN Read4(event.file) ELSE <<"unreadable">>
          /\ IF validate_pdf_magic_number(readable)
             THEN /\ hpc' = "sorting"
                  /\ pc' = "start"
                  /\ UNCHANGED <<sortVars, response, inFile, cleaned>>
             ELSE /\ Leave(400, inFile)
                  /\ UNCHANGED <<doc, use_ocr, OCR_AVAILABLE, needs_ocr, page_num,
                                 vin_pages, writer, fed, garbleChecked, postThrown,
                                 failure, pc>>
    /\ UNCHANGED <<arg, ret, event, s3>>

\* sort_pdf_by_vehicle running under a request handler, on the file at input_path:
\* the path exists and ends in .pdf
SortStep ==
    /\ hpc = "sorting"
    /\ \/ ReaderFails
       \/ ReaderOpens
       \/ DetectOcr
       \/ PageBucketed
       \/ PageReportThrows
       \/ PageExtractThrows
       \/ BuildOutput
       \/ WriteSucceeds
       \/ OpenFails
       \/ WriteFails
       \/ WriteReportThrows

\* handle_process, lines 177-208: the sort returned
ProcessSortReturned ==
    /\ hpc = "sorting"
    /\ IsProcess(event)
    /\ pc = "returned"
    /\ IF outFile.state = "absent" THEN Leave(500, inFile)
       ELSE \E read \in BOOLEAN : Leave(IF read THEN 200 ELSE 500, inFile)
    /\ UNCHANGED <<sortLocals, event, header, s3>>

\* handle_process, lines 171-175, 197-204: the sort called sys.exit(1); SystemExit is
\* no Exception, so the finally block runs and line 206 does not catch it
ProcessSortExits ==
    /\ hpc = "sorting"
    /\ IsProcess(event)
    /\ pc = "sys_exit"
    /\ \E fails \in SUBSET TempFiles(inFile) : Finally(inFile, fails)
    /\ hpc' = "terminated"
    /\ UNCHANGED <<sortLocals, event, response, header, s3>>

\* handle_process_s3, lines 273-294: the key is taken out of the request
S3Parse ==
    /\ hpc = "parse"
    /\ IsProcessS3(event)
    /\ IF event.body = "bad_json" THEN Reply(500)
       ELSE IF event.body = "no_key" THEN Reply(400)
       ELSE /\ hpc' = "save"
            /\ UNCHANGED <<sortVars, pc, arg, ret, event, response, inFile, header,
                           s3, cleaned>>

\* handle_process_s3, lines 296-299: the object is downloaded to input_path
S3Download ==
    /\ hpc = "save"
    /\ IsProcessS3(event)
    /\ inFile' = "present"
    /\ hpc' = "validate"
    /\ UNCHANGED <<sortVars, pc, arg, ret, event, response, header, s3, cleaned>>

\* handle_process_s3, lines 299, 343-354: download_from_s3 raises
S3DownloadFails ==
    /\ hpc = "save"
    /\ IsProcessS3(event)
    /\ \E left \in {"absent", "present"} : Leave(500, left)
    /\ UNCHANGED <<sortLocals, event, header, s3>>

\* handle_process_s3, lines 301-311: the header check, then the call of
\* sort_pdf_by_vehicle
S3Validate ==
    /\ hpc = "validate"
    /\ IsProcessS3(event)
    /\ \E readable \in BOOLEAN :
          /\ header' = IF readable THEN Read4(event.file) ELSE <<"unreadable">>
          /\ IF validate_pdf_magic_number(readable)
             THEN /\ hpc' = "sorting"
                  /\ pc' = "start"
                  /\ UNCHANGED <<sortVars, response, inFile, cleaned>>
             ELSE /\ Leave(400, inFile)
                  /\ UNCHANGED <<doc, use_ocr, OCR_AVAILABLE, needs_ocr, page_num,
                                 vin_pages, writer, fed, garbleChecked, postThrown,
                                 failure, pc>>
    /\ UNCHANGED <<arg, ret, event, s3>>

\* handle_process_s3, lines 313-354: the sort returned; the result is uploaded, its
\* URL presigned and the input object deleted
S3SortReturned ==
    /\ hpc = "sorting"
    /\ IsProcessS3(event)
    /\ pc = "returned"
    /\ IF outFile.state = "absent"
       THEN Leave(500, inFile) /\ UNCHANGED s3
       ELSE \E step \in {"upload_fails", "presign_fails", "delete_fails", "done"} :
               /\ s3' = [uploaded |-> step # "upload_fails",
                         input_deleted |-> step = "done"]
               /\ Leave(IF step \in {"delete_fails", "done"} THEN 200 ELSE 500, inFile)
    /\ UNCHANGED <<sortLocals, event, header>>

\* handle_process_s3, lines 307-311, 343-350: the sort called sys.exit(1)
S3SortExits ==
    /\ hpc = "sorting"
    /\ IsProcessS3(event)
    /\ pc = "sys_exit"
    /\ \E fails \in SUBSET TempFiles(inFile) : Finally(inFile, fails)
    /\ hpc' = "terminated"
    /\ UNCHANGED <<sortLocals, event, response, header, s3>>

NextHandler ==
    \/ Options
    \/ Health
    \/ UploadUrl
    \/ MethodNotAllowed
    \/ NotFound
    \/ RouteToProcessing
    \/ ProcessParse
    \/ ProcessSave
    \/ ProcessSaveFails
    \/ ProcessValidate
    \/ SortStep
    \/ ProcessSortReturned
    \/ ProcessSortExits
    \/ S3Parse
    \/ S3Download
    \/ S3DownloadFails
    \/ S3Validate
    \/ S3SortReturned
    \/ S3SortExits

SpecHandler == InitHandler /\ [][NextHandler]_vars

(***************************************************************************)
(* Properties of sort_pdf_by_vehicle                                       *)
(***************************************************************************)
\* the run got as far as filling the writer
ReachedWriter ==
    \/ pc \in {"write", "returned"}
    \/ pc = "sys_exit" /\ failure = "output"

Occurrences(p) == Cardinality({i \in 1..Len(writer) : writer[i].page = p})

\* C1: a run that reaches the writer appends exactly N pages, each source
\* index 0..N-1 exactly once, whatever the per-page outcomes were.
C1_TotalCoverage ==
    ReachedWriter =>
        /\ Len(writer) = total_pages
        /\ \A p \in 0..(total_pages - 1) : Occurrences(p) = 1

\* C2: in the output, the pages of a group with a smaller non-"Unknown" key come
\* before the pages of a group with a larger one, and the pages of the "Unknown"
\* group come after the pages of every other group.
C2_GroupOrdering ==
    ReachedWriter =>
        \A i, j \in 1..Len(writer) :
            /\ ( /\ writer[i].vin # Unknown
                 /\ writer[j].vin # Unknown
                 /\ StrLess(writer[i].vin, writer[j].vin) ) => i < j
            /\ (writer[i].vin # Unknown /\ writer[j].vin = Unknown) => i < j

\* a finished run whose output holds two numbered groups and the "Unknown" group,
\* each pair of them in the opposite order in the input
C2_Witness ==
    /\ pc = "returned"
    /\ \E i, j \in 1..Len(writer) :
           /\ i < j
           /\ writer[i].vin # Unknown
           /\ writer[j].vin # Unknown
           /\ writer[i].vin # writer[j].vin
           /\ writer[i].page > writer[j].page
    /\ \E i, j \in 1..Len(writer) :
           /\ i < j
           /\ writer[i].vin # Unknown
           /\ writer[j].vin = Unknown
           /\ writer[i].page > writer[j].page

\* C3: in the output the pages of one key are contiguous and in strictly
\* ascending source index.
C3_IntraGroupOrder ==
    ReachedWriter =>
        \A i, j \in 1..Len(writer) :
            (i < j /\ writer[i].vin = writer[j].vin) =>
                /\ writer[i].page < writer[j].page
                /\ \A k \in i..j : writer[k].vin = writer[i].vin

\* text extraction of page p throws, or the OCR engine fails on it
PageFails(p) ==
    \/ TextThrows(p)
    \/ needs_ocr /\ OCR_AVAILABLE /\ doc[p + 1].ocr_error

\* pages 0, 1, 2 with keys "0042", a throw, "0007"
ExampleDocument == <<PageKinds[1], PageKinds[3], PageKinds[2]>>

\* C4: when extraction of page i fails in the per-page loop, the page is recorded
\* last in the "Unknown" group with label "Unknown", every other group is left as
\* it was, and the loop goes on to page i+1 instead of aborting; keys
\* "0042", throw, "0007" give the output order 2, 0, 1.
C4_PageFailureAbsorbed ==
    /\ [][ (pc = "loop" /\ page_num < total_pages /\ PageFails(page_num)) =>
             /\ pc' = "loop"
             /\ page_num' = page_num + 1
             /\ \E i \in 1..Len(vin_pages') :
                    /\ vin_pages'[i].vin = Unknown
                    /\ vin_pages'[i].pages[Len(vin_pages'[i].pages)] = <<page_num, Unknown>>
             /\ \A i \in 1..Len(vin_pages) :
                    vin_pages[i].vin # Unknown => vin_pages'[i] = vin_pages[i] ]_vars
    /\ [](( /\ pc = "returned"
            /\ doc = ExampleDocument
            /\ ~needs_ocr
            /\ postThrown = {} ) => WrittenPages = <<2, 0, 1>>)

\* the example run has finished
C4_Witness ==
    /\ pc = "returned"
    /\ doc = ExampleDocument
    /\ ~needs_ocr
    /\ postThrown = {}
    /\ vin_pages[2] = [vin |-> Unknown, pages |-> << <<1, Unknown>> >>]
    /\ outFile.pages = <<2, 0, 1>>

\* OCR is required: forced by the caller, or page 0 is garbled, or page 0 throws
OcrRequired ==
    \/ use_ocr
    \/ total_pages > 0 /\ (doc[1].throws \/ is_text_garbled(doc[1].native))

\* C5: when OCR is required and unavailable, the run aborts before any page is
\* extracted in the per-page loop and before any output is written.
C5_ConfigurationError ==
    (pc \notin {"start", "detect"} /\ failure \notin {"input_missing", "not_pdf", "unreadable"}
        /\ OcrRequired /\ ~OCR_AVAILABLE) =>
        /\ pc = "sys_exit"
        /\ failure = "configuration"
        /\ page_num = 0
        /\ fed = <<>>
        /\ outFile.state = "absent"

\* C6: the text source is chosen once, before the loop, and kept: with OCR
\* required every page, page 0 included, is fed from the OCR engine and keyed by
\* that text; otherwise every page is fed its native text, and the garbling
\* detector sees no page but page 0.
C6_DocumentWideOcrPolicy ==
    /\ [][pc = "loop" => needs_ocr' = needs_ocr]_vars
    /\ []( (pc \in {"loop", "write", "returned"}) =>
            /\ garbleChecked \subseteq {0}
            /\ OcrRequired =>
                 /\ garbleChecked = IF use_ocr \/ doc[1].throws THEN {} ELSE {0}
                 /\ Len(fed) = page_num
                 /\ \A i \in 1..Len(fed) :
                        /\ fed[i].page = i - 1
                        /\ fed[i].src = "ocr"
                        /\ fed[i].text = IF OCR_AVAILABLE /\ ~doc[i].ocr_error
                                         THEN doc[i].ocr ELSE <<>>
                        /\ \E b \in 1..Len(vin_pages) :
                               /\ vin_pages[b].vin = fed[i].vin
                               /\ \E e \in 1..Len(vin_pages[b].pages) :
                                      vin_pages[b].pages[e][1] = i - 1
            /\ ~OcrRequired =>
                 /\ \A p \in 0..(page_num - 1) :
                        doc[p + 1].throws \/ \E i \in 1..Len(fed) : fed[i].page = p
                 /\ \A i \in 1..Len(fed) :
                        /\ fed[i].src = "native"
                        /\ fed[i].text = doc[fed[i].page + 1].native )

\* a finished run over two or more pages that went to OCR because page 0 was
\* garbled, and keyed page 0 by its OCR text
C6_Witness ==
    /\ pc = "returned"
    /\ ~use_ocr
    /\ total_pages >= 2
    /\ is_text_garbled(doc[1].native)
    /\ Len(fed) = total_pages
    /\ fed[1].src = "ocr"
    /\ fed[1].vin # extract_vehicle_vin(doc[1].native)[1]

\* C8: every run ends either returned with the complete document of all N pages
\* at the output path, or failed with no partly written file there.
C8_CompleteOrNothing ==
    /\ pc = "returned" =>
           /\ outFile.state = "complete"
           /\ \A p \in 0..(total_pages - 1) :
                  \E i \in 1..Len(outFile.pages) : outFile.pages[i] = p
    /\ pc = "sys_exit" => outFile.state # "partial"

IsKey(k) == k = Unknown \/ (Len(k) = 4 /\ \A i \in 1..4 : IsDigit(k[i]))

\* int(k) of a string of four digits
KeyNumber(k) ==
    LET v(c) == Ord(c) - Ord("0")
    IN  1000 * v(k[1]) + 100 * v(k[2]) + 10 * v(k[3]) + v(k[4])

\* C10: every key a page is bucketed under is "Unknown" or four digits, so that
\* the string order of the other keys is their numeric order.
C10_KeyDomain ==
    /\ \A i \in 1..Len(vin_pages) : IsKey(vin_pages[i].vin)
    /\ \A i, j \in 1..Len(vin_pages) :
           (vin_pages[i].vin # Unknown /\ vin_pages[j].vin # Unknown) =>
               (StrLess(vin_pages[i].vin, vin_pages[j].vin)
                    <=> KeyNumber(vin_pages[i].vin) < KeyNumber(vin_pages[j].vin))

\* a finished run with a zero-padded key, another numbered key, and an
\* "Unknown" group from the error path
C10_Witness ==
    /\ pc = "returned"
    /\ \E i, j, k \in 1..Len(vin_pages) :
           /\ vin_pages[i].vin = <<"0", "0", "4", "2">>
           /\ vin_pages[j].vin \notin {Unknown, <<"0", "0", "4", "2">>}
           /\ vin_pages[k].vin = Unknown
    /\ \E p \in 1..total_pages : doc[p].throws /\ ~needs_ocr

(***************************************************************************)
(* Properties of extract_last_4_digits                                     *)
(***************************************************************************)
\* what the normalizer is to return for x, from the position of its last digit
NormalizedLastRun(x) ==
    LET D == {i \in 1..Len(x) : IsDigit(x[i])}
    IN  IF D = {} THEN Unknown
        ELSE LET j == CHOOSE a \in D : \A b \in D : b <= a
                 i == Min({a \in 1..j : \A k \in a..j : IsDigit(x[k])})
                 n == j - i + 1
             IN  IF n = 4 THEN SubSeq(x, i, j)
                 ELSE IF n > 4 THEN SubSeq(x, j - 3, j)
                 ELSE [k \in 1..4 |-> IF k <= 4 - n THEN "0" ELSE x[i + k - (4 - n) - 1]]

\* C9: extract_last_4_digits(x) is "Unknown" when x has no digit; otherwise it is
\* the last maximal digit run, cut to its last 4 characters or left-padded with
\* "0" to 4; "5875" -> "5875", "123456" -> "3456", "42" -> "0042".
C9_NormalizerCorrect ==
    pc = "norm_returned" =>
        /\ ret = NormalizedLastRun(arg)
        /\ arg = <<"5", "8", "7", "5">> => ret = <<"5", "8", "7", "5">>
        /\ arg = <<"1", "2", "3", "4", "5", "6">> => ret = <<"3", "4", "5", "6">>
        /\ arg = <<"4", "2">> => ret = <<"0", "0", "4", "2">>

\* a string with two digit runs, the last one short, has been normalized
C9_Witness ==
    /\ pc = "norm_returned"
    /\ Len(FindAllDigits(arg)) = 2
    /\ Len(FindAllDigits(arg)[1]) > Len(FindAllDigits(arg)[2])
    /\ ret = zfill(FindAllDigits(arg)[2], 4)

(***************************************************************************)
(* Properties of extract_vehicle_vin                                       *)
(***************************************************************************)
\* the lines at which strategy 1 matches
FuelLines(lines) == {i \in 1..Len(lines) : LabeledFuelLine(lines, i) # None}

\* the lines at which strategy 2 matches
VehicleLines(lines) == {i \in 1..Len(lines) : LabeledVehicleLine(lines, i) # None}

\* strategies 3, 4 and 5 in order
LaterStrategies(text) ==
    IF Method2(text) # None THEN Method2(text)
    ELSE IF SearchVocab(text) # None
         THEN <<extract_last_4_digits(SearchVocab(text)), SearchVocab(text)>>
    ELSE IF SearchCapitalized(text) # None
         THEN <<extract_last_4_digits(SearchCapitalized(text)), SearchCapitalized(text)>>
    ELSE IF SearchVehicleId(text, S_venicle) # None
         THEN <<SearchVehicleId(text, S_venicle),
                S_Vehicle \o <<" ">> \o SearchVehicleId(text, S_venicle)>>
    ELSE IF SearchVehicleId(text, S_vehicle) # None
         THEN <<SearchVehicleId(text, S_vehicle),
                S_Vehicle \o <<" ">> \o SearchVehicleId(text, S_vehicle)>>
    ELSE IF SearchInvoice(text) # None
         THEN <<SearchInvoice(text), S_Vehicle \o <<" ">> \o SearchInvoice(text)>>
    ELSE <<Unknown, Unknown>>

\* strategy 1 wherever it matches, else strategy 2 wherever it matches, else the rest
StrictPriority(text) ==
    LET lines == Split(text)
        s1 == FuelLines(lines)
        s2 == VehicleLines(lines)
    IN  IF s1 # {} THEN LabeledFuelLine(lines, Min(s1))
        ELSE IF s2 # {} THEN LabeledVehicleLine(lines, Min(s2))
        ELSE LaterStrategies(text)

\* the first line at which strategy 1 or 2 matches decides, else the rest
LineByLinePriority(text) ==
    LET lines == Split(text)
        s1 == FuelLines(lines)
        s2 == VehicleLines(lines)
    IN  IF s1 \cup s2 # {}
        THEN IF Min(s1 \cup s2) \in s1
             THEN LabeledFuelLine(lines, Min(s1 \cup s2))
             ELSE LabeledVehicleLine(lines, Min(s1 \cup s2))
        ELSE LaterStrategies(text)

\* C7: extract_vehicle_vin returns the result of the highest-priority strategy
\* that matches anywhere in the text, in the order 1, 2, 3, 4, 5, and
\* ("Unknown", "Unknown") only when none matches.
C7_StrictPriority ==
    pc = "extract_returned" => ret = StrictPriority(arg)

\* C7, amended: strategies 1 and 2 share one pass over the lines, and the first
\* line at which either matches decides (strategy 1 first on that line);
\* strategies 3, 4, 5 follow in order, each only when no earlier one matches,
\* and ("Unknown", "Unknown") only when none matches.
C7_LineByLinePriority ==
    pc = "extract_returned" => ret = LineByLinePriority(arg)

\* strategy 2 has answered from an earlier line of a text in which strategy 1
\* matches on a later line
C7_Witness ==
    /\ pc = "extract_returned"
    /\ LET lines == Split(arg)
           s1 == FuelLines(lines)
           s2 == VehicleLines(lines)
       IN  /\ s1 # {}
           /\ s2 # {}
           /\ Min(s2) < Min(s1)
           /\ ret = LabeledVehicleLine(lines, Min(s2))
           /\ ret # LabeledFuelLine(lines, Min(s1))

(***************************************************************************)
(* C11: format check precedes processing. Under handle_process and         *)
(* handle_process_s3, sort_pdf_by_vehicle is only ever invoked after the   *)
(* file at input_path was read and its first 4 bytes are "%PDF"; when the  *)
(* file read has another header, is shorter than 4 bytes or cannot be      *)
(* read, the sort is never invoked, no output file is produced, nothing is *)
(* uploaded, and the request ends with a 400 response.                     *)
(***************************************************************************)
C11_FormatCheckPrecedes ==
    /\ pc # "not_called" => header = S_PDF /\ Read4(event.file) = S_PDF
    /\ header \notin {None, S_PDF} =>
           /\ pc = "not_called"
           /\ outFile.state = "absent"
           /\ ~s3.uploaded
           /\ hpc = "returned"
           /\ response = 400

\* a file of 3 bytes was saved, checked and rejected with 400, the sort not called
C11_Witness ==
    /\ hpc = "returned"
    /\ header = <<"%", "P", "D">>
    /\ "input" \in cleaned.removed
    /\ pc = "not_called"
    /\ response = 400

(***************************************************************************)
(* C13: every invocation of handler ends by returning a response whose     *)
(* statusCode is one of 200, 400, 404, 405, 500; in particular, when       *)
(* sort_pdf_by_vehicle failed (it called sys.exit) the request handler has *)
(* returned a 500 response.                                                *)
(***************************************************************************)
C13_AlwaysResponds ==
    /\ hpc \in {"returned", "terminated"} => response \in {200, 400, 404, 405, 500}
    /\ hpc # "sorting" /\ pc = "sys_exit" => hpc = "returned" /\ response = 500

(***************************************************************************)
(* C14: temp-file cleanup. Whenever a request handler has been left, by a  *)
(* response or by the exit raised inside the sort, and no removal failed,  *)
(* neither the local input file nor the local output file exists.          *)
(***************************************************************************)
C14_TempFilesCleaned ==
    hpc \in {"returned", "terminated"} /\ cleaned.kept = {} =>
        inFile = "absent" /\ outFile.state = "absent"

\* the sort exited after writing to the output path, and both temp files were removed
C14_Witness ==
    /\ hpc = "terminated"
    /\ failure = "output"
    /\ cleaned = [removed |-> {"input", "output"}, kept |-> {}]
    /\ inFile = "absent"
    /\ outFile.state = "absent"

(***************************************************************************)
(* C12: garbling detection. is_text_garbled(t) is true exactly when t      *)
(* holds a slash immediately followed by a digit, or a slash, an "i" and a *)
(* digit, or t is not empty and fewer than half of its characters are      *)
(* alphanumeric or whitespace; the empty text is not garbled.              *)
(***************************************************************************)
\* t holds the characters of mark, then a digit
HasMark(t, mark) ==
    \E i \in 1..Len(t) :
        /\ i + Len(mark) <= Len(t)
        /\ SubSeq(t, i, i + Len(mark) - 1) = mark
        /\ t[i + Len(mark)] \in Digits

\* the number of characters of t that are alphanumeric or whitespace
RECURSIVE ReadableCount(_)
ReadableCount(t) ==
    IF t = <<>> THEN 0
    ELSE (IF Head(t) \in Digits \cup UpperCase \cup LowerCase \cup {" ", "\n"} THEN 1 ELSE 0)
         + ReadableCount(Tail(t))

C12_GarblingDetection ==
    pc = "garbled_returned" =>
        /\ ret = (\/ HasMark(arg, <<"/">>)
                  \/ HasMark(arg, <<"/", "i">>)
                  \/ arg # <<>> /\ 2 * ReadableCount(arg) < Len(arg))
        /\ arg = <<>> => ret = FALSE

\* a text of which exactly half is readable, and no mark: not garbled
C12_Witness ==
    /\ pc = "garbled_returned"
    /\ arg = <<"#", "a", " ", "#">>
    /\ ret = FALSE

====
